---------------------------- MODULE Spec2Model ----------------------------
(***************************************************************************)
(* A model of lumos.py: the OSC 11 background colour probe of the          *)
(* controlling terminal, the colour parser and the luminance classifier,   *)
(* run as the module-level pipeline of lines 112-127.                      *)
(*                                                                         *)
(* Bytes and characters are one-element strings; the bytes that have no    *)
(* printable form are named: "ESC" (0x1b), "BEL" (0x07), "TAB" (0x09) and   *)
(* "x80" (a byte above 0x7f).  A byte string or a str is a sequence of     *)
(* them.  An optional value (None or a value) is <<>> or <<value>>.        *)
(***************************************************************************)
EXTENDS Integers, Sequences, FiniteSets, TLC

VARIABLES
    pc,       \* the statement the program is at
    mode,     \* the terminal's line-discipline settings (the device's state)
    orig,     \* the settings the terminal had when the program started
    old,      \* local `old` of query_bg_from_terminal: None or the captured mode
    fdOpen,   \* whether the descriptor opened at line 37 is open
    opened,   \* whether os.open succeeded in this run
    term,     \* what the terminal emulator answers in this run
    pos,      \* how many chunks of term.chunks the program has read
    hup,      \* whether the terminal has hung up (reads return b"")
    buf,      \* local `buf`
    i,        \* iterations of the for loop started so far
    nwrites,  \* os.write calls made
    nselect,  \* select.select calls made
    didRead,  \* whether os.read was called
    timedOut, \* the for loop ran out of iterations without a break
    exc,      \* the exception in flight: "none", "OSError", "termios.error", "ValueError"
    reply,    \* module-level `reply`: None or the colour string
    rgb,      \* module-level `rgb`: None or the triple
    out,      \* what was written to stdout
    exit      \* None or the exit status of the process

vars == <<pc, mode, orig, old, fdOpen, opened, term, pos, hup, buf, i,
          nwrites, nselect, didRead, timedOut, exc, reply, rgb, out, exit>>

None == <<>>
Some(x) == <<x>>

(***************************************************************************)
(* Bounds of the model.                                                    *)
(***************************************************************************)
\* The most chunks of the terminal's answer one os.read returns.
MaxRead == 2

(***************************************************************************)
(* Constants of the program.                                               *)
(***************************************************************************)
\* range(100), line 47.
PollLimit == 100
\* sys.exit(0), line 123, and sys.exit(2), line 127.
ExitClassified == 0
ExitUnknown == 2

(***************************************************************************)
(* Character classes.                                                      *)
(***************************************************************************)
\* What bytes \s and str.strip() treat as whitespace, among the model's bytes.
Whitespace == {" ", "TAB"}

DecDigits == {"0", "1", "2", "3", "4", "5", "6", "7", "8", "9"}

HexValue ==
    ("0" :> 0) @@ ("1" :> 1) @@ ("2" :> 2) @@ ("3" :> 3) @@ ("4" :> 4) @@
    ("5" :> 5) @@ ("6" :> 6) @@ ("7" :> 7) @@ ("8" :> 8) @@ ("9" :> 9) @@
    ("a" :> 10) @@ ("b" :> 11) @@ ("c" :> 12) @@ ("d" :> 13) @@
    ("e" :> 14) @@ ("f" :> 15) @@
    ("A" :> 10) @@ ("B" :> 11) @@ ("C" :> 12) @@ ("D" :> 13) @@
    ("E" :> 14) @@ ("F" :> 15)

HexDigits == DOMAIN HexValue

\* The bytes bytes.decode("ascii", "ignore") drops.
NonAscii == {"x80"}

(***************************************************************************)
(* Sequence helpers (Python slicing and searching).                        *)
(***************************************************************************)
Min(a, b) == IF a <= b THEN a ELSE b

\* s[a-1:b] in Python's terms: elements a..b, clipped to the string.
Slice(s, a, b) == SubSeq(s, a, Min(b, Len(s)))

StartsWith(s, p) == Len(s) >= Len(p) /\ SubSeq(s, 1, Len(p)) = p

\* The least index >= k at which s holds an element outside cls, or Len(s)+1.
RECURSIVE SkipWhile(_, _, _)
SkipWhile(s, k, cls) ==
    IF k <= Len(s) /\ s[k] \in cls THEN SkipWhile(s, k + 1, cls) ELSE k

\* The greatest index <= k at which s holds an element outside cls, or 0.
RECURSIVE SkipBack(_, _, _)
SkipBack(s, k, cls) ==
    IF k >= 1 /\ s[k] \in cls THEN SkipBack(s, k - 1, cls) ELSE k

\* str.strip()
Strip(s) == SubSeq(s, SkipWhile(s, 1, Whitespace), SkipBack(s, Len(s), Whitespace))

\* The least index >= k at which s holds c, or Len(s)+1.
RECURSIVE IndexOf(_, _, _)
IndexOf(s, k, c) ==
    IF k <= Len(s) /\ s[k] # c THEN IndexOf(s, k + 1, c) ELSE k

\* str.split(sep) for a one-character separator.
RECURSIVE Split(_, _)
Split(s, sep) ==
    LET k == IndexOf(s, 1, sep)
    IN  IF k > Len(s) THEN <<s>>
        ELSE <<SubSeq(s, 1, k - 1)>> \o Split(SubSeq(s, k + 1, Len(s)), sep)

\* bytes.decode("ascii", "ignore")
DecodeAscii(b) == SelectSeq(b, LAMBDA c : c \notin NonAscii)

(***************************************************************************)
(* Numbers.                                                                *)
(***************************************************************************)
\* The number a string of digits of the given base denotes (most significant
\* digit first); every element of s is a key of HexValue.
RECURSIVE DigitsValue(_, _)
DigitsValue(s, base) ==
    IF s = <<>> THEN 0
    ELSE DigitsValue(SubSeq(s, 1, Len(s) - 1), base) * base + HexValue[s[Len(s)]]

\* int(x, 16): None stands for the ValueError it raises.  int() ignores
\* surrounding whitespace.  (The model's characters hold no sign, no "_" and
\* no "x", the other things int() accepts.)
IntHex(x) ==
    LET t == Strip(x)
    IN  IF t # <<>> /\ \A k \in 1..Len(t) : t[k] \in HexDigits
        THEN Some(DigitsValue(t, 16))
        ELSE None

\* int(x) of a match of \d+.
IntDec(x) == DigitsValue(x, 10)

\* round(num / den) for num >= 0, den > 0: to the nearest integer, a tie to
\* the even one.
Round(num, den) ==
    LET q == num \div den
        r == num % den
    IN  IF 2 * r < den THEN q
        ELSE IF 2 * r > den THEN q + 1
        ELSE IF q % 2 = 0 THEN q ELSE q + 1

(***************************************************************************)
(* parse_rgb (lines 61-89).  The result is [exc, val]: exc is the          *)
(* exception parse_rgb raises ("none" when it returns) and val what it     *)
(* returns, None or a triple.                                              *)
(***************************************************************************)
Returns(v) == [exc |-> "none", val |-> v]
Raises(e) == [exc |-> e, val |-> None]

\* A variant of h that scales every token, whatever its length.
h_AlwaysScale(x) ==
    LET n == IntHex(x)
    IN  IF n = None THEN None ELSE Some(Round(n[1] * 255, 65535))

\* The inner function h (lines 76-80): None stands for the ValueError.
h(x) ==
    LET n == IntHex(x)
    IN  IF n = None THEN None
        ELSE IF Len(x) = 2 THEN n ELSE Some(Round(n[1] * 255, 65535))

\* Lines 72-82: the rgb:/rgba: grammar.
ParseColon(s) ==
    LET rest == SubSeq(s, IndexOf(s, 1, ":") + 1, Len(s))
        parts == Split(rest, "/")
    IN  IF Len(parts) < 3 THEN Raises("ValueError")   \* r, g, b = parts[:3]
        ELSE LET r == h(parts[1])
                 g == h(parts[2])
                 b == h(parts[3])
             IN  IF r = None \/ g = None \/ b = None THEN Raises("ValueError")
                 ELSE Returns(Some(<<r[1], g[1], b[1]>>))

\* Lines 83-84: the #RRGGBB / #RRGGBBAA grammar.
ParseHash(s) ==
    LET r == IntHex(SubSeq(s, 2, 3))
        g == IntHex(SubSeq(s, 4, 5))
        b == IntHex(SubSeq(s, 6, 7))
    IN  IF r = None \/ g = None \/ b = None THEN Raises("ValueError")
        ELSE Returns(Some(<<r[1], g[1], b[1]>>))

\* Lines 85-89: re.match(r"rgb\((\d+),\s*(\d+),\s*(\d+)\)", s).
ParseDecimal(s) ==
    LET r1 == 5
        r2 == SkipWhile(s, r1, DecDigits)
        g1 == SkipWhile(s, r2 + 1, Whitespace)
        g2 == SkipWhile(s, g1, DecDigits)
        b1 == SkipWhile(s, g2 + 1, Whitespace)
        b2 == SkipWhile(s, b1, DecDigits)
    IN  IF /\ StartsWith(s, <<"r", "g", "b", "(">>)
           /\ r2 > r1 /\ r2 <= Len(s) /\ s[r2] = ","
           /\ g2 > g1 /\ g2 <= Len(s) /\ s[g2] = ","
           /\ b2 > b1 /\ b2 <= Len(s) /\ s[b2] = ")"
        THEN Returns(Some(<<IntDec(SubSeq(s, r1, r2 - 1)),
                            IntDec(SubSeq(s, g1, g2 - 1)),
                            IntDec(SubSeq(s, b1, b2 - 1))>>))
        ELSE Returns(None)

parse_rgb(s0) ==
    LET s == Strip(s0)
    IN  IF StartsWith(s, <<"r", "g", "b", ":">>) \/ StartsWith(s, <<"r", "g", "b", "a", ":">>)
        THEN ParseColon(s)
        ELSE IF StartsWith(s, <<"#">>) /\ Len(s) \in {7, 9}
        THEN ParseHash(s)
        ELSE ParseDecimal(s)

(***************************************************************************)
(* luminance (lines 92-109), in fixed point.                               *)
(***************************************************************************)
\* LinE7[c + 1] = round(10^7 * lin(c / 255.0)) for a channel c in 0..255,
\* lin being the inner function of lines 104-107.
LinE7 ==
  <<
     0, 3035, 6071, 9106, 12141, 15176, 18212, 21247,
     24282, 27317, 30353, 33465, 36765, 40247, 43914, 47770,
     51815, 56054, 60488, 65121, 69954, 74990, 80232, 85681,
     91341, 97212, 103298, 109601, 116122, 122865, 129830, 137021,
     144438, 152085, 159963, 168074, 176420, 185002, 193824, 202886,
     212190, 221739, 231534, 241576, 251869, 262412, 273209, 284260,
     295568, 307134, 318960, 331048, 343398, 356013, 368895, 382044,
     395462, 409152, 423114, 437350, 451862, 466651, 481718, 497066,
     512695, 528606, 544803, 561285, 578054, 595112, 612461, 630100,
     648033, 666259, 684782, 703601, 722719, 742136, 761854, 781874,
     802198, 822827, 843762, 865005, 886556, 908417, 930590, 953075,
     975873, 998987, 1022417, 1046165, 1070231, 1094617, 1119324, 1144354,
     1169707, 1195384, 1221388, 1247718, 1274377, 1301365, 1328683, 1356333,
     1384316, 1412633, 1441285, 1470273, 1499598, 1529262, 1559265, 1589608,
     1620294, 1651322, 1682694, 1714411, 1746474, 1778884, 1811642, 1844750,
     1878208, 1912017, 1946178, 1980693, 2015563, 2050787, 2086369, 2122308,
     2158605, 2195262, 2232280, 2269659, 2307400, 2345506, 2383976, 2422811,
     2462013, 2501583, 2541521, 2581829, 2622507, 2663556, 2704978, 2746773,
     2788943, 2831487, 2874408, 2917706, 2961383, 3005438, 3049873, 3094689,
     3139887, 3185468, 3231432, 3277781, 3324515, 3371636, 3419144, 3467041,
     3515326, 3564001, 3613068, 3662526, 3712377, 3762621, 3813260, 3864294,
     3915725, 3967552, 4019778, 4072402, 4125426, 4178851, 4232677, 4286905,
     4341536, 4396572, 4452012, 4507858, 4564110, 4620770, 4677838, 4735315,
     4793202, 4851499, 4910208, 4969330, 5028865, 5088813, 5149177, 5209956,
     5271151, 5332764, 5394795, 5457245, 5520114, 5583404, 5647115, 5711248,
     5775804, 5840784, 5906188, 5972018, 6038273, 6104956, 6172066, 6239604,
     6307571, 6375969, 6444797, 6514056, 6583748, 6653873, 6724432, 6795425,
     6866853, 6938718, 7011019, 7083758, 7156935, 7230551, 7304607, 7379104,
     7454042, 7529422, 7605245, 7681511, 7758222, 7835378, 7912979, 7991027,
     8069523, 8148466, 8227858, 8307699, 8387990, 8468732, 8549926, 8631572,
     8713671, 8796224, 8879231, 8962694, 9046612, 9130987, 9215819, 9301109,
     9386857, 9473065, 9559734, 9646862, 9734453, 9822506, 9911021, 10000000
  >>

\* floor(5 * 10^6 * (0.2126 lin(r) + 0.7152 lin(g) + 0.0722 lin(b))), for
\* channels in 0..255.  The weights are 1063, 3576 and 361 five-thousandths;
\* each table entry is split in two so that no product leaves 32 bits.
luminance(c) ==
    LET hi(k) == LinE7[c[k] + 1] \div 10000
        lo(k) == LinE7[c[k] + 1] % 10000
    IN  (1063 * hi(1) + 3576 * hi(2) + 361 * hi(3))
        + ((1063 * lo(1) + 3576 * lo(2) + 361 * lo(3)) \div 10000)

\* DARK_THRESHOLD (0.5) in the unit of luminance.
DARK_THRESHOLD == 2500000

(***************************************************************************)
(* The regular expression of line 57 and the decoding of line 58.          *)
(***************************************************************************)
\* The bytes [^\a\x1b] excludes.
PayloadEnd == {"BEL", "ESC"}

\* Whether rb"\]\s*11;" matches at index k of b.
MarkerAt(b, k) ==
    /\ k <= Len(b) /\ b[k] = "]"
    /\ LET j == SkipWhile(b, k + 1, Whitespace)
       IN  Slice(b, j, j + 2) = <<"1", "1", ";">>

\* The least index >= k at which the marker matches, or Len(b)+1.
RECURSIVE SearchMarker(_, _)
SearchMarker(b, k) ==
    IF k > Len(b) \/ MarkerAt(b, k) THEN k ELSE SearchMarker(b, k + 1)

\* The least index >= k at which s holds an element of stop, or Len(s)+1.
RECURSIVE SkipUntil(_, _, _)
SkipUntil(s, k, stop) ==
    IF k <= Len(s) /\ s[k] \notin stop THEN SkipUntil(s, k + 1, stop) ELSE k

\* Lines 57-58 with the pattern rb"11;([^\a\x1b]*)", its leading \]\s* lost.
ExtractReply_NoBracket(b) ==
    IF \E k \in 1..(Len(b) - 2) : SubSeq(b, k, k + 2) = <<"1", "1", ";">>
    THEN LET k == CHOOSE n \in 1..(Len(b) - 2) :
                     /\ SubSeq(b, n, n + 2) = <<"1", "1", ";">>
                     /\ \A m \in 1..(n - 1) : SubSeq(b, m, m + 2) # <<"1", "1", ";">>
         IN  Some(DecodeAscii(SubSeq(b, k + 3, SkipUntil(b, k + 3, PayloadEnd) - 1)))
    ELSE None

\* Lines 57-58: re.search(rb"\]\s*11;([^\a\x1b]*)", buf) and the return:
\* None, or group 1 of the leftmost match, decoded.
ExtractReply(b) ==
    LET k == SearchMarker(b, 1)
    IN  IF k > Len(b) THEN None
        ELSE LET j == SkipWhile(b, k + 1, Whitespace) + 3
             IN  Some(DecodeAscii(SubSeq(b, j, SkipUntil(b, j, PayloadEnd) - 1)))

\* Line 52: b"\a" in buf or b"\033\\" in buf.
HasTerminator(b) ==
    \/ \E k \in 1..Len(b) : b[k] = "BEL"
    \/ \E k \in 1..(Len(b) - 1) : b[k] = "ESC" /\ b[k + 1] = "\\"


(***************************************************************************)
(* The terminal.                                                           *)
(***************************************************************************)
\* termios attributes: the local flags (element 3 of the list tcgetattr
\* returns) as the set of the flags that are set, and the rest of the list.
CookedMode == [lflag |-> {"ISIG", "ICANON", "ECHO", "ECHOE"}, rest |-> "cooked"]

OrigModes ==
    { CookedMode,
      [lflag |-> {"ISIG", "ECHO"},                    rest |-> "cbreak"],
      [lflag |-> {},                                  rest |-> "raw"] }

\* Lines 41-42 with every local flag cleared.
RawOf_ClearsAll(m) == [m EXCEPT !.lflag = {}]

\* Lines 41-42: new = old[:]; new[3] &= ~(termios.ICANON | termios.ECHO)
RawOf(m) == [m EXCEPT !.lflag = @ \ {"ICANON", "ECHO"}]

OSC11 == <<"ESC", "]", "1", "1", ";">>
Rgb == <<"r", "g", "b", ":">>
Gray80 == <<"8", "0", "8", "0">>
White == <<"f", "f", "f", "f">>

\* What the terminal sends after the query: the chunks its answer arrives
\* in, and whether it goes on sending "0" bytes for ever after them.
Answer(c) == [chunks |-> c, endless |-> FALSE]

Terminals ==
    { \* ESC ] 11 ; rgb:8080/8080/8080 BEL
      Answer(<< OSC11 \o Rgb \o Gray80 \o <<"/">> \o Gray80 \o <<"/", "8", "0">>,
                <<"8", "0">>, <<"BEL">> >>),
      \* ESC ] 11 ; rgb:ffff/ffff/ffff ESC \
      Answer(<< <<"ESC", "]">>,
                <<"1", "1", ";">> \o Rgb \o White \o <<"/">> \o White \o <<"/">> \o White,
                <<"ESC">>, <<"\\">> >>),
      \* ESC ] SP 11 ; #ffffff BEL
      Answer(<< <<"ESC", "]", " ">>,
                <<"1", "1", ";", "#", "f", "f", "f", "f", "f", "f">>, <<"BEL">> >>),
      \* ESC ] 11 ; #1a2b 0x80 3c BEL
      Answer(<< OSC11 \o <<"#", "1", "a", "2", "b", "x80", "3", "c">>, <<"BEL">> >>),
      \* ESC ] 11 ; rgb(12, 34, 56) BEL
      Answer(<< <<"ESC">>,
                <<"]", "1", "1", ";", "r", "g", "b", "(", "1", "2", ",", " ", "3", "4", ",",
                  " ", "5", "6", ")">>,
                <<"BEL">> >>),
      \* ESC ] 11 ; rgb:zz/00/00 BEL
      Answer(<< OSC11 \o Rgb \o <<"z", "z", "/", "0", "0", "/", "0", "0", "BEL">> >>),
      \* ESC ] 11 ; rgb:00/00 BEL
      Answer(<< OSC11 \o Rgb \o <<"0", "0", "/", "0", "0", "BEL">> >>),
      \* ESC ] 11 ; red BEL
      Answer(<< OSC11 \o <<"r", "e", "d", "BEL">> >>),
      \* ESC ] 11 ; BEL
      Answer(<< <<"ESC">>, <<"]", "1", "1", ";", "BEL">> >>),
      \* ESC [ 11 ; 2 R BEL: a cursor position report, then a bell
      Answer(<< <<"ESC", "[", "1", "1", ";", "2", "R">>, <<"BEL">> >>),
      \* a terminal that does not answer
      Answer(<< >>),
      \* a stream of "0" bytes that never ends
      [chunks |-> << >>, endless |-> TRUE] }

(***************************************************************************)
(* The program.                                                            *)
(***************************************************************************)
Init ==
    /\ pc = "open"
    /\ mode \in OrigModes
    /\ orig = mode
    /\ old = None
    /\ fdOpen = FALSE
    /\ opened = FALSE
    /\ term \in Terminals
    /\ pos = 0
    /\ hup = FALSE
    /\ buf = <<>>
    /\ i = 0
    /\ nwrites = 0
    /\ nselect = 0
    /\ didRead = FALSE
    /\ timedOut = FALSE
    /\ exc = "none"
    /\ reply = None
    /\ rgb = None
    /\ out = ""
    /\ exit = None

\* An exception nothing catches ends the process: the interpreter prints the
\* traceback and exits with status 1.
Uncaught(e) ==
    /\ pc' = "exited"
    /\ exc' = e
    /\ exit' = Some(1)

\* Line 37: os.open succeeds.
Open ==
    /\ pc = "open"
    /\ fdOpen' = TRUE
    /\ opened' = TRUE
    /\ pc' = "tcgetattr"
    /\ UNCHANGED <<mode, orig, old, term, pos, hup, buf, i, nwrites, nselect,
                   didRead, timedOut, exc, reply, rgb, out, exit>>

\* Lines 37-39 with the except clause not returning.
OpenFails_FallsThrough ==
    /\ pc = "open"
    /\ pc' = "tcgetattr"
    /\ UNCHANGED <<mode, orig, old, fdOpen, opened, term, pos, hup, buf, i,
                   nwrites, nselect, didRead, timedOut, exc, reply, rgb, out, exit>>

\* Lines 37-39: os.open raises OSError; the function returns None.
OpenFails ==
    /\ pc = "open"
    /\ reply' = None
    /\ pc' = "parse"
    /\ UNCHANGED <<mode, orig, old, fdOpen, opened, term, pos, hup, buf, i,
                   nwrites, nselect, didRead, timedOut, exc, rgb, out, exit>>

\* Line 40: old = termios.tcgetattr(fd)
GetAttr ==
    /\ pc = "tcgetattr"
    /\ old' = Some(mode)
    /\ pc' = "tcsetattr"
    /\ UNCHANGED <<mode, orig, fdOpen, opened, term, pos, hup, buf, i, nwrites,
                   nselect, didRead, timedOut, exc, reply, rgb, out, exit>>

\* Line 40: tcgetattr raises termios.error, outside any try.
GetAttrFails ==
    /\ pc = "tcgetattr"
    /\ Uncaught("termios.error")
    /\ UNCHANGED <<mode, orig, old, fdOpen, opened, term, pos, hup, buf, i,
                   nwrites, nselect, didRead, timedOut, reply, rgb, out>>

\* Lines 41-43: termios.tcsetattr(fd, termios.TCSANOW, new)
SetRaw ==
    /\ pc = "tcsetattr"
    /\ mode' = RawOf(old[1])
    /\ pc' = "write"
    /\ UNCHANGED <<orig, old, fdOpen, opened, term, pos, hup, buf, i, nwrites,
                   nselect, didRead, timedOut, exc, reply, rgb, out, exit>>

\* Line 43: tcsetattr raises termios.error, outside any try; the mode is unchanged.
SetRawFails ==
    /\ pc = "tcsetattr"
    /\ Uncaught("termios.error")
    /\ UNCHANGED <<mode, orig, old, fdOpen, opened, term, pos, hup, buf, i,
                   nwrites, nselect, didRead, timedOut, reply, rgb, out>>

\* Lines 45-46: os.write(fd, b"\033]11;?\a"); buf = b""
Write ==
    /\ pc = "write"
    /\ nwrites' = nwrites + 1
    /\ buf' = <<>>
    /\ pc' = "for"
    /\ UNCHANGED <<mode, orig, old, fdOpen, opened, term, pos, hup, i, nselect,
                   didRead, timedOut, exc, reply, rgb, out, exit>>

\* Line 45: os.write raises OSError; control goes to the finally clause.
WriteFails ==
    /\ pc = "write"
    /\ nwrites' = nwrites + 1
    /\ exc' = "OSError"
    /\ pc' = "finally"
    /\ UNCHANGED <<mode, orig, old, fdOpen, opened, term, pos, hup, buf, i,
                   nselect, didRead, timedOut, reply, rgb, out, exit>>

\* Line 47: the for loop starts its next iteration.
ForNext ==
    /\ pc = "for"
    /\ i < PollLimit
    /\ i' = i + 1
    /\ pc' = "select"
    /\ UNCHANGED <<mode, orig, old, fdOpen, opened, term, pos, hup, buf, nwrites,
                   nselect, didRead, timedOut, exc, reply, rgb, out, exit>>

\* Line 47: range(100) is exhausted; the try block ends.
ForExhausted ==
    /\ pc = "for"
    /\ i >= PollLimit
    /\ timedOut' = TRUE
    /\ pc' = "finally"
    /\ UNCHANGED <<mode, orig, old, fdOpen, opened, term, pos, hup, buf, i,
                   nwrites, nselect, didRead, exc, reply, rgb, out, exit>>

\* Line 48: select reports the descriptor readable.
SelectReady ==
    /\ pc = "select"
    /\ nselect' = nselect + 1
    /\ pc' = "read"
    /\ UNCHANGED <<mode, orig, old, fdOpen, opened, term, pos, hup, buf, i,
                   nwrites, didRead, timedOut, exc, reply, rgb, out, exit>>

\* Lines 48-50: the 20 ms pass with nothing to read; continue.
SelectIdle ==
    /\ pc = "select"
    /\ ~hup
    /\ nselect' = nselect + 1
    /\ pc' = "for"
    /\ UNCHANGED <<mode, orig, old, fdOpen, opened, term, pos, hup, buf, i,
                   nwrites, didRead, timedOut, exc, reply, rgb, out, exit>>

\* Line 48: select raises OSError.
SelectFails ==
    /\ pc = "select"
    /\ nselect' = nselect + 1
    /\ exc' = "OSError"
    /\ pc' = "finally"
    /\ UNCHANGED <<mode, orig, old, fdOpen, opened, term, pos, hup, buf, i,
                   nwrites, didRead, timedOut, reply, rgb, out, exit>>

\* The concatenation of chunks a+1..b of the terminal's answer.
RECURSIVE Chunks(_, _, _)
Chunks(c, a, b) == IF a >= b THEN <<>> ELSE c[a + 1] \o Chunks(c, a + 1, b)

\* Lines 51-53 without the break of line 53.
Received_NoBreak(data) ==
    /\ didRead' = TRUE
    /\ buf' = buf \o data
    /\ pc' = "for"

\* Lines 51-53, os.read having returned data: append it, and break when the
\* buffer holds a terminator.
Received(data) ==
    /\ didRead' = TRUE
    /\ buf' = buf \o data
    /\ pc' = IF HasTerminator(buf') THEN "finally" ELSE "for"

\* Lines 51-53: os.read returns the next chunks of the answer.
Read ==
    /\ pc = "read"
    /\ ~hup
    /\ \E n \in 1..MaxRead :
          /\ pos + n <= Len(term.chunks)
          /\ pos' = pos + n
          /\ Received(Chunks(term.chunks, pos, pos + n))
    /\ UNCHANGED <<mode, orig, old, fdOpen, opened, term, hup, i, nwrites,
                   nselect, timedOut, exc, reply, rgb, out, exit>>

\* Lines 51-53: os.read returns one more byte of a stream that never ends.
ReadEndless ==
    /\ pc = "read"
    /\ ~hup
    /\ term.endless
    /\ pos = Len(term.chunks)
    /\ Received(<<"0">>)
    /\ UNCHANGED <<mode, orig, old, fdOpen, opened, term, pos, hup, i, nwrites,
                   nselect, timedOut, exc, reply, rgb, out, exit>>

\* Lines 51-53: os.read returns b"", the terminal having hung up.
ReadEof ==
    /\ pc = "read"
    /\ hup' = TRUE
    /\ Received(<<>>)
    /\ UNCHANGED <<mode, orig, old, fdOpen, opened, term, pos, i, nwrites,
                   nselect, timedOut, exc, reply, rgb, out, exit>>

\* Line 51: os.read raises OSError.
ReadFails ==
    /\ pc = "read"
    /\ didRead' = TRUE
    /\ exc' = "OSError"
    /\ pc' = "finally"
    /\ UNCHANGED <<mode, orig, old, fdOpen, opened, term, pos, hup, buf, i,
                   nwrites, nselect, timedOut, reply, rgb, out, exit>>

\* Line 55 with `new` written back in place of `old`.
Restored_New == RawOf(old[1])

\* Line 55: the settings tcsetattr(fd, TCSANOW, old) applies.
Restored == old[1]

\* Line 55: termios.tcsetattr(fd, termios.TCSANOW, old).  The two calls of
\* the finally clause are taken to succeed: the environment's failures are
\* those of lines 37-51.
Restore ==
    /\ pc = "finally"
    /\ mode' = Restored
    /\ pc' = "close"
    /\ UNCHANGED <<orig, old, fdOpen, opened, term, pos, hup, buf, i, nwrites,
                   nselect, didRead, timedOut, exc, reply, rgb, out, exit>>

\* Line 56: os.close(fd); then the exception in flight, if any, leaves the
\* function and the module.
Close ==
    /\ pc = "close"
    /\ fdOpen' = FALSE
    /\ IF exc # "none"
       THEN Uncaught(exc)
       ELSE pc' = "match" /\ UNCHANGED <<exc, exit>>
    /\ UNCHANGED <<mode, orig, old, opened, term, pos, hup, buf, i, nwrites,
                   nselect, didRead, timedOut, reply, rgb, out>>

\* Lines 57-58 and 112: reply = query_bg_from_terminal()
Match ==
    /\ pc = "match"
    /\ reply' = ExtractReply(buf)
    /\ pc' = "parse"
    /\ UNCHANGED <<mode, orig, old, fdOpen, opened, term, pos, hup, buf, i,
                   nwrites, nselect, didRead, timedOut, exc, rgb, out, exit>>

\* Line 115: rgb = parse_rgb(reply) if reply else None
Parse ==
    /\ pc = "parse"
    /\ IF reply = None \/ reply = Some(<<>>)
       THEN rgb' = None /\ pc' = "emit" /\ UNCHANGED <<exc, exit>>
       ELSE LET p == parse_rgb(reply[1])
            IN  IF p.exc # "none"
                THEN Uncaught(p.exc) /\ UNCHANGED rgb
                ELSE rgb' = p.val /\ pc' = "emit" /\ UNCHANGED <<exc, exit>>
    /\ UNCHANGED <<mode, orig, old, fdOpen, opened, term, pos, hup, buf, i,
                   nwrites, nselect, didRead, timedOut, reply, out>>

\* Lines 118-123: a triple was parsed; write the classification, exit 0.
EmitClassification ==
    /\ pc = "emit"
    /\ rgb # None
    /\ out' = IF luminance(rgb[1]) < DARK_THRESHOLD THEN "dark" ELSE "light"
    /\ exit' = Some(ExitClassified)
    /\ pc' = "exited"
    /\ UNCHANGED <<mode, orig, old, fdOpen, opened, term, pos, hup, buf, i,
                   nwrites, nselect, didRead, timedOut, exc, reply, rgb>>

\* Lines 125-127: no triple; write "unknown", exit 2.
EmitUnknown ==
    /\ pc = "emit"
    /\ rgb = None
    /\ out' = "unknown"
    /\ exit' = Some(ExitUnknown)
    /\ pc' = "exited"
    /\ UNCHANGED <<mode, orig, old, fdOpen, opened, term, pos, hup, buf, i,
                   nwrites, nselect, didRead, timedOut, exc, reply, rgb>>

Next ==
    \/ Open \/ OpenFails
    \/ GetAttr \/ GetAttrFails
    \/ SetRaw \/ SetRawFails
    \/ Write \/ WriteFails
    \/ ForNext \/ ForExhausted
    \/ SelectReady \/ SelectIdle \/ SelectFails
    \/ Read \/ ReadEndless \/ ReadEof \/ ReadFails
    \/ Restore \/ Close
    \/ Match \/ Parse
    \/ EmitClassification \/ EmitUnknown

Spec == Init /\ [][Next]_vars


(***************************************************************************)
(* The parser and the classifier on their own: the program from line 57    *)
(* on, the prober having read ESC ] 11 ; <colour> BEL in one piece.        *)
(***************************************************************************)
LowerHex == {"0", "1", "2", "3", "4", "5", "6", "7", "8", "9",
             "a", "b", "c", "d", "e", "f"}

\* Every channel token of two and of four hex digits.
Tokens2 == {<<a, b>> : a \in LowerHex, b \in LowerHex}
Tokens4 == {x \o y : x \in Tokens2, y \in Tokens2}

\* Channel tokens of every kind: 1 to 4 digits, upper case, padded, not hex, empty.
MixedTokens ==
    { <<"0", "0">>, <<"f", "f">>, <<"F", "F">>, <<"7", "f">>,
      <<"0", "0", "0", "0">>, White, Gray80,
      <<"f">>, <<"f", "f", "f">>, <<" ", "f", "f">>,
      <<"z", "z">>, <<>> }

Colours ==
    \* rgb:<r>/80/ffff, r any token of two or four digits
    { Rgb \o r \o <<"/", "8", "0", "/">> \o White : r \in Tokens2 \cup Tokens4 }
    \cup
    \* rgb:<r>/<g>/<b> and rgba:<r>/<g>/<b>/ffff
    { p \o r \o <<"/">> \o g \o <<"/">> \o b \o a :
        p \in {Rgb, <<"r", "g", "b", "a", ":">>},
        r \in MixedTokens, g \in MixedTokens, b \in MixedTokens,
        a \in {<<>>, <<"/">> \o White} }
    \cup
    { <<" ">> \o Rgb \o White \o <<"/">> \o <<"0", "0", "0", "0">> \o <<"/">> \o Gray80 \o <<" ">>,
      Rgb \o <<"0", "0", "/", "0", "0">>,
      <<"#", "1", "a", "2", "b", "3", "c">>,
      <<"#", "1", "a", "2", "b", "3", "c", "a", "a">>,
      <<"#", "f", "f", "f", "f", "f", "f">>,
      <<"#", "z", "z", "0", "0", "0", "0">>,
      <<"#", "f", "f", "f">>,
      <<"r", "g", "b", "(", "1", "2", ",", " ", "3", "4", ",", " ", "5", "6", ")">>,
      <<"r", "g", "b", "(", "2", "5", "5", ",", "2", "5", "5", ",", "0", ")">>,
      <<"r", "g", "b", "(", "1", "2", ",", "3", "4", ")">>,
      <<"r", "e", "d">> }

ParseInit ==
    /\ pc = "match"
    /\ mode = CookedMode
    /\ orig = mode
    /\ old = Some(mode)
    /\ fdOpen = FALSE
    /\ opened = TRUE
    /\ \E c \in Colours : term = Answer(<< OSC11 \o c \o <<"BEL">> >>)
    /\ pos = 1
    /\ hup = FALSE
    /\ buf = term.chunks[1]
    /\ i = 1
    /\ nwrites = 1
    /\ nselect = 1
    /\ didRead = TRUE
    /\ timedOut = FALSE
    /\ exc = "none"
    /\ reply = None
    /\ rgb = None
    /\ out = ""
    /\ exit = None

ParseNext == Match \/ Parse \/ EmitClassification \/ EmitUnknown

ParseSpec == ParseInit /\ [][ParseNext]_vars


(***************************************************************************)
(* The claims.                                                             *)
(***************************************************************************)
\* Control has left query_bg_from_terminal, by return or by exception.
ProberLeft == pc \in {"parse", "emit", "exited"}

\* The prober ran to its return statement.
ProberReturned == opened /\ exc \in {"none", "ValueError"} /\ ProberLeft

\* C1: once control has left a call of the prober that opened the device
\* (reply received, timeout, or OSError from os.write, select or os.read),
\* the terminal's mode equals the settings tcgetattr captured, which are
\* those it had before the call.
C1_ModeRestored ==
    (opened /\ (ProberLeft \/ pc = "match")) =>
        /\ mode = orig
        /\ old # None => mode = old[1]

C1_Witness_RestoredAfterReadError ==
    /\ pc = "exited"
    /\ exc = "OSError"
    /\ didRead
    /\ "ICANON" \in orig.lflag
    /\ mode = orig

\* C2: every failure is absorbed: a run ends with exit status 0 or 2 only,
\* and a run in which something failed ends having written unknown, with
\* exit status 2.
C2_FailuresAbsorbed ==
    pc = "exited" =>
        /\ exit \in {Some(ExitClassified), Some(ExitUnknown)}
        /\ exc # "none" => out = "unknown" /\ exit = Some(ExitUnknown)

\* C3: when the loop runs out of its 100 iterations without a terminator
\* in the buffer, the prober returns None and the run ends with unknown and
\* exit status 2, whatever bytes were collected.
C3_TimeoutGivesUnknown ==
    (timedOut /\ pc = "exited") =>
        /\ reply = None
        /\ out = "unknown"
        /\ exit = Some(ExitUnknown)

\* C4: the descriptor the prober opened is closed when control leaves the
\* prober, on every path.
C4_HandleClosed == ProberLeft => ~fdOpen

\* The colour string selects the rgb:/rgba: or the # grammar and one of its
\* numeric tokens is not a hex number.
SelectsColon(s) ==
    StartsWith(s, <<"r", "g", "b", ":">>) \/ StartsWith(s, <<"r", "g", "b", "a", ":">>)

SelectsHash(s) == StartsWith(s, <<"#">>) /\ Len(s) \in {7, 9}

NotHex(x) == x = <<>> \/ \E k \in 1..Len(x) : x[k] \notin HexDigits

MalformedToken(s) ==
    \/ /\ SelectsColon(s)
       /\ LET parts == Split(SubSeq(s, IndexOf(s, 1, ":") + 1, Len(s)), "/")
          IN  \E k \in 1..Min(3, Len(parts)) : NotHex(parts[k])
    \/ /\ ~SelectsColon(s)
       /\ SelectsHash(s)
       /\ \E k \in 2..7 : s[k] \notin HexDigits

\* C5: a colour string that selects a grammar and holds a malformed numeric
\* token makes parse_rgb yield None (it raises nothing and yields no triple),
\* and the run ends with unknown.
C5_MalformedTokenGivesNone ==
    (pc \in {"emit", "exited"} /\ reply # None /\ MalformedToken(Strip(reply[1]))) =>
        /\ exc = "none"
        /\ rgb = None
        /\ pc = "exited" => out = "unknown" /\ exit = Some(ExitUnknown)

\* The buffer holds a BEL byte or the two bytes ESC \.
HoldsBelOrSt(b) ==
    \E k \in 1..Len(b) :
        b[k] = "BEL" \/ (b[k] = "\\" /\ k > 1 /\ b[k - 1] = "ESC")

LoopPcs == {"for", "select", "read"}

\* The steps the loop can still take: three for each iteration not yet
\* started, fewer inside one.
LoopSteps ==
    3 * (PollLimit - i) + (IF pc = "select" THEN 2 ELSE IF pc = "read" THEN 1 ELSE 0)

\* A step taken inside the loop leaves it or leaves fewer steps to take.
LoopStepNearsEnd ==
    pc \in LoopPcs =>
        \/ pc' = "finally"
        \/ pc' \in LoopPcs /\ LoopSteps' < LoopSteps /\ LoopSteps' >= 0

\* C6: the polling loop ends: at most 100 readiness waits are made, none of
\* them and no read with a terminator already in the buffer; and whatever the
\* terminal sends, the loop always has a step to take and every step either
\* leaves it for the finally clause or brings its end nearer.
C6_PollingEnds ==
    /\ [](nselect <= PollLimit /\ i <= PollLimit)
    /\ [](pc \in LoopPcs => ~HoldsBelOrSt(buf) /\ ENABLED Next)
    /\ [][LoopStepNearsEnd]_vars

C6_Witness_EndlessStream ==
    /\ pc = "finally"
    /\ timedOut
    /\ term.endless
    /\ nselect = PollLimit
    /\ Len(buf) = PollLimit
    /\ ~HoldsBelOrSt(buf)

\* A channel token of exactly n hex digits.
HexToken(x, n) == Len(x) = n /\ \A k \in 1..n : x[k] \in HexDigits

\* What parse_rgb must give for a valid channel token x: v is the token's
\* value when it has two digits, and the integer nearest to value*255/65535
\* when it has four; v is in 0..255 either way.
ChannelOk(x, v) ==
    LET n == DigitsValue(x, 16)
        d == v * 65535 - n * 255
    IN  /\ v \in 0..255
        /\ Len(x) = 2 => v = n
        /\ Len(x) = 4 => 2 * d <= 65535 /\ -2 * d <= 65535

\* C7: for an rgb:/rgba: string with three valid channel tokens, parse_rgb
\* returns each 2-digit channel unchanged and each 4-digit channel as
\* round(channel / 65535 * 255), every channel in 0..255.
C7_ChannelScaling ==
    (pc \in {"emit", "exited"} /\ reply # None /\ SelectsColon(Strip(reply[1]))) =>
        LET s == Strip(reply[1])
            parts == Split(SubSeq(s, IndexOf(s, 1, ":") + 1, Len(s)), "/")
        IN  (/\ Len(parts) >= 3
             /\ \A k \in 1..3 : HexToken(parts[k], 2) \/ HexToken(parts[k], 4))
            => /\ exc = "none"
               /\ rgb # None
               /\ \A k \in 1..3 : ChannelOk(parts[k], rgb[1][k])

C7_Witness_SpecExample ==
    /\ pc = "exited"
    /\ reply # None
    /\ Strip(reply[1]) = Rgb \o White \o <<"/", "0", "0", "0", "0", "/">> \o Gray80
    /\ rgb = Some(<<255, 0, 128>>)

\* C8: when /dev/tty cannot be opened the prober returns None at once: no
\* mode is captured or changed, nothing is written or read, and the run
\* ends with unknown and exit status 2.
C8_OpenFailure ==
    (~opened /\ pc # "open") =>
        /\ ProberLeft
        /\ old = None /\ mode = orig /\ ~fdOpen
        /\ nwrites = 0 /\ nselect = 0 /\ ~didRead
        /\ reply = None /\ rgb = None
        /\ pc = "exited" => out = "unknown" /\ exit = Some(ExitUnknown)

C8_Witness_OpenFailed ==
    /\ ~opened
    /\ pc = "exited"
    /\ out = "unknown"

\* The buffer holds the four bytes ] 1 1 ;
HoldsLiteralMarker(b) ==
    \E k \in 1..(Len(b) - 3) : SubSeq(b, k, k + 3) = <<"]", "1", "1", ";">>

\* The buffer holds ], then whitespace bytes (any number, none too), then 1 1 ;
HoldsSpacedMarker(b) ==
    \E k \in 1..Len(b) : \E j \in (k + 1)..(Len(b) - 2) :
        /\ b[k] = "]"
        /\ \A m \in (k + 1)..(j - 1) : b[m] \in Whitespace
        /\ b[j] = "1" /\ b[j + 1] = "1" /\ b[j + 2] = ";"

\* What C9 says of a buffer without a marker, and of exit status 0.
NoReplyFrom(unmarked) ==
    /\ (ProberReturned /\ unmarked) =>
          /\ reply = None
          /\ rgb = None
          /\ pc = "exited" => out = "unknown" /\ exit = Some(ExitUnknown)
    /\ exit = Some(ExitClassified) => out \in {"dark", "light"}

\* C9 as stated: a raw reply buffer without the marker ]11; (the empty buffer
\* too) yields no colour string and no triple, and the run ends with unknown
\* and exit status 2; exit status 0 comes only with dark or light written.
C9_NoLiteralMarkerNoReply == NoReplyFrom(~HoldsLiteralMarker(buf))

\* C9 as amended: the marker is ], optional whitespace, 11;
C9_NoSpacedMarkerNoReply == NoReplyFrom(~HoldsSpacedMarker(buf))

C9_Witness_OtherAnswer ==
    /\ pc = "exited"
    /\ ProberReturned
    /\ buf # <<>>
    /\ ~HoldsSpacedMarker(buf)
    /\ out = "unknown"

\* The mode differs from the original one by cleared ICANON and ECHO only.
RawLike ==
    /\ \A f \in {"ISIG", "ICANON", "ECHO", "ECHOE"} :
          f \in mode.lflag <=> (f \in orig.lflag /\ f \notin {"ICANON", "ECHO"})
    /\ mode.lflag \subseteq orig.lflag
    /\ mode.rest = orig.rest

\* C10: the query is written at most once per run; it is written, and every
\* select and read is made, with the original mode captured, the raw-like
\* mode applied, the original mode not yet restored and the descriptor open;
\* and the mode is restored before the descriptor is closed.
C10_SingleQueryInRawWindow ==
    /\ nwrites <= 1
    /\ pc \in {"write", "select", "read"} => old = Some(orig) /\ RawLike /\ fdOpen
    /\ (nwrites > 0 \/ nselect > 0 \/ didRead) => old = Some(orig)
    /\ pc = "close" => fdOpen /\ mode = orig
    /\ (opened /\ ~fdOpen) => mode = orig /\ pc \notin {"write", "select", "read", "finally", "close"}

C10_Witness_ReadInRawMode ==
    /\ pc = "read"
    /\ nwrites = 1
    /\ orig = CookedMode
    /\ mode.lflag = {"ISIG", "ECHOE"}


=============================================================================
